---- MODULE Spec2Model ----
(***************************************************************************)
(* Model of Rover/backend/app/main.py: the MavlinkService telemetry cache. *)
(* One reader thread (_reader_loop) folds inbound MAVLink messages into    *)
(* `latest` under `_lock`; the event-loop thread serves snapshot() and     *)
(* send_manual_control() and runs start()/stop().                          *)
(***************************************************************************)
EXTENDS Integers, Sequences, FiniteSets, TLC

(* ---------------------------- bounds ----------------------------------- *)
\* last value of the wall clock
MaxClock == 1

(* ----------------------- Python values --------------------------------- *)
\* Every Python value is a tagged record, so that values of different
\* Python types can be compared.
None == [k |-> "none"]
IntV(n) == [k |-> "int", n |-> n]
BoolV(b) == [k |-> "bool", b |-> b]
StrV(s) == [k |-> "str", s |-> s]
\* a float: cls is "finite", "nan", "inf" or "-inf"; a finite float is n/d
FloatV(cls, n, d) == [k |-> "float", cls |-> cls, n |-> n, d |-> d]
NaN == FloatV("nan", 0, 1)
Inf == FloatV("inf", 0, 1)
DictV(m) == [k |-> "dict", m |-> m]
ListV(items) == [k |-> "list", items |-> items]
TupleV(items) == [k |-> "tuple", items |-> items]
EmptyMap == [x \in {} |-> None]
EmptyDict == DictV(EmptyMap)

Abs(n) == IF n < 0 THEN -n ELSE n

RECURSIVE GCD(_, _)
GCD(a, b) == IF b = 0 THEN a ELSE GCD(b, a % b)

\* the finite float n/d in lowest terms, d > 0
Ratio(n, d) ==
    LET g == GCD(Abs(n), Abs(d))
        s == IF d < 0 THEN -1 ELSE 1
    IN  FloatV("finite", s * (n \div g), s * (d \div g))

\* dict.get(key, default)
Get(d, key, default) == IF key \in DOMAIN d.m THEN d.m[key] ELSE default

\* x / den for a positive float constant den
FDiv(x, den) ==
    IF x.k = "int" THEN Ratio(x.n, den)
    ELSE IF x.k = "float" /\ x.cls = "finite" THEN Ratio(x.n, x.d * den)
    ELSE x

\* x or 0
OrZero(x) ==
    IF x = None \/ x = IntV(0) \/ x = BoolV(FALSE) \/ x = FloatV("finite", 0, 1)
    THEN IntV(0) ELSE x

E7 == 10000000
Milli == 1000

\* mutant of DivOrNone: the test is on the truth of x, so a zero counts as absent
DivOrNoneFalsy(x, den) == IF x # None /\ x # IntV(0) THEN FDiv(x, den) ELSE None

\* (x / den if x is not None else None)
DivOrNone(x, den) == IF x # None THEN FDiv(x, den) ELSE None

\* mutant of VoltageV: the None test is left out
VoltageVOrZero(sys_status) ==
    FDiv(OrZero(Get(sys_status, "voltage_battery", None)), Milli)

\* battery.voltage_v
VoltageV(sys_status) ==
    IF Get(sys_status, "voltage_battery", None) # None
    THEN FDiv(OrZero(Get(sys_status, "voltage_battery", None)), Milli)
    ELSE None

\* mutant of _sanitize_for_json: only the values of the mapping it is given
\* are looked at, not what they contain
SanitizeShallow(value) ==
    IF value.k = "dict"
    THEN DictV([x \in DOMAIN value.m |->
                 IF value.m[x].k = "float" /\ value.m[x].cls # "finite"
                 THEN None ELSE value.m[x]])
    ELSE value

RECURSIVE _sanitize_for_json(_)
_sanitize_for_json(value) ==
    IF value.k = "dict"
    THEN DictV([x \in DOMAIN value.m |-> _sanitize_for_json(value.m[x])])
    ELSE IF value.k \in {"list", "tuple"}
    THEN ListV([i \in DOMAIN value.items |-> _sanitize_for_json(value.items[i])])
    ELSE IF value.k = "float"
    THEN IF value.cls = "finite" THEN value ELSE None
    ELSE value

(* ----------------------- inbound messages ------------------------------ *)
watched == {"HEARTBEAT", "GLOBAL_POSITION_INT", "ATTITUDE", "SYS_STATUS",
            "GPS_RAW_INT", "HOME_POSITION"}

Msg(t, fields) == [type |-> t, fields |-> fields]

\* the messages the vehicle sends in this model
Messages ==
    { Msg("HEARTBEAT", [custom_mode |-> IntV(0)]),
      Msg("GLOBAL_POSITION_INT",
          [lat |-> IntV(123456780), lon |-> IntV(0), relative_alt |-> IntV(1500)]),
      Msg("GLOBAL_POSITION_INT",
          [lat |-> IntV(0), lon |-> IntV(-5), relative_alt |-> IntV(0)]),
      Msg("ATTITUDE", [roll |-> NaN, pitch |-> Ratio(1, 2), yaw |-> Ratio(0, 1)]),
      Msg("VFR_HUD", [groundspeed |-> Inf]) }

Heartbeats == {m \in Messages : m.type = "HEARTBEAT"}

\* msg.to_dict(): the fields plus the mavpackettype key
to_dict(msg) ==
    DictV([f \in DOMAIN msg.fields \cup {"mavpackettype"} |->
            IF f = "mavpackettype" THEN StrV(msg.type) ELSE msg.fields[f]])

\* system and component ids the heartbeats of the one vehicle announce
SysIds == {2}
CompIds == {1}

(* ----------------------------- state ----------------------------------- *)
\* threads that can run _reader_loop
Workers == {"w1", "w2"}

ManualControlRequest(x, y, z, r, buttons) ==
    [x |-> x, y |-> y, z |-> z, r |-> r, buttons |-> buttons]

\* the requests the clients make in this model
Requests == { ManualControlRequest(0, 0, 500, 0, 0),
              ManualControlRequest(-1000, 1000, 0, 7, 1) }

NoMsg == Msg("", EmptyMap)
NoReq == ManualControlRequest(0, 0, 0, 0, -1)

VARIABLES
    master,            \* self.master: "None" or "conn"
    target_system,     \* self.master.target_system
    target_component,  \* self.master.target_component
    connected,         \* self.connected
    latest,            \* self.latest: message type -> payload
    last_seen_at,      \* self.last_seen_at
    lock,              \* self._lock: "free" or its holder
    stop_event,        \* self._stop_event
    stream_requested,  \* self._stream_requested
    pc,                \* position of each reader thread
    msg,               \* _reader_loop local msg
    payload,           \* _reader_loop local payload
    msg_type,          \* _reader_loop local msg_type
    cpc,               \* position of the event-loop thread
    creq,              \* the request being served
    cloc,              \* snapshot() / send_manual_control() locals
    cres,              \* what the last call returned or raised
    linkUp,            \* the vehicle is still sending
    sent,              \* messages _reader_loop handed to the link, in order
    hist               \* history variables of the properties

shared == <<connected, latest, last_seen_at, stream_requested>>
link == <<master, target_system, target_component>>
reader == <<pc, msg, payload, msg_type>>
client == <<cpc, creq, cloc, cres>>
env == <<linkUp>>
vars == <<shared, link, reader, client, env, lock, stop_event, sent, hist>>

NoLocals == [raw |-> EmptyMap, connected |-> FALSE, last_seen_at |-> None,
             master |-> "None", tsys |-> 0, tcomp |-> 0,
             out |-> <<>>]         \* what this call handed to the link

NoResult == [kind |-> "none", value |-> None]

Hist0 == [lastRecv |-> EmptyMap,   \* type -> payload last taken by line 67
          hbSeen |-> FALSE,        \* a heartbeat has reached the link handle
          locksAfterStop |-> 0,    \* locked writes begun after stop()
          testsAfterStop |-> 0,    \* loop tests (line 54) made after stop()
          replaced |-> FALSE,      \* line 75 has overwritten an entry by another payload
          tried |-> [REQUEST_DATA_STREAM |-> 0, GET_HOME_POSITION |-> 0],
                                   \* sends _request_streams has attempted, by kind
          snapAfterDrop |-> FALSE] \* the running snapshot began after the drop

\* MavlinkService.__init__
Init ==
    /\ master = "None"
    /\ target_system = 0
    /\ target_component = 0
    /\ connected = FALSE
    /\ latest = EmptyMap
    /\ last_seen_at = None
    /\ lock = "free"
    /\ stop_event = FALSE
    /\ stream_requested = FALSE
    /\ pc = [w \in Workers |-> "unborn"]
    /\ msg = [w \in Workers |-> NoMsg]
    /\ payload = [w \in Workers |-> EmptyDict]
    /\ msg_type = [w \in Workers |-> ""]
    /\ cpc = "idle"
    /\ creq = NoReq
    /\ cloc = NoLocals
    /\ cres = NoResult
    /\ linkUp = TRUE
    /\ sent = <<>>
    /\ hist = Hist0

(* --------------------------- environment ------------------------------- *)
\* time.time() as a float
TimeV(t) == FloatV("finite", t, 1)

\* time.time(): what the clock can read now; it does not go back, and the
\* last reading taken is last_seen_at
Times == {t \in 0..MaxClock : last_seen_at = None \/ t >= last_seen_at.n}

\* the link can deliver a message
CanDeliver == linkUp

\* pymavlink post_message: a vehicle heartbeat sets the target ids
LibPost(m, s, c) ==
    IF m.type = "HEARTBEAT"
    THEN /\ target_system' = s
         /\ target_component' = c
    ELSE UNCHANGED <<target_system, target_component>>

\* the vehicle stops sending: no further message arrives
DropLink ==
    /\ linkUp
    /\ linkUp' = FALSE
    /\ UNCHANGED <<shared, link, reader, client, lock, stop_event, sent, hist>>

(* ------------------------ _reader_loop --------------------------------- *)
Bump(n) == IF n < 2 THEN n + 1 ELSE n

Put(d, key, value) ==
    [x \in DOMAIN d \cup {key} |-> IF x = key THEN value ELSE d[x]]

\* mutant of Acquire: the lock is taken without waiting for it
AcquireNoWait(who) == lock' = who

\* with self._lock: (enter)
Acquire(who) ==
    /\ lock = "free"
    /\ lock' = who

\* with self._lock: (exit)
Release(who) ==
    /\ lock = who
    /\ lock' = "free"

\* mutant of LoopTest: the stop signal is not tested
LoopTestIgnoreStop(w) ==
    /\ pc[w] = "loop"
    /\ pc' = [pc EXCEPT ![w] = IF master # "None" THEN "if_conn" ELSE "done"]
    /\ hist' = [hist EXCEPT !.testsAfterStop = IF stop_event THEN Bump(@) ELSE @]
    /\ UNCHANGED <<shared, link, msg, payload, msg_type, client, env, lock,
                   stop_event, sent>>

\* line 54: while not self._stop_event.is_set() and self.master is not None
LoopTest(w) ==
    /\ pc[w] = "loop"
    /\ pc' = [pc EXCEPT ![w] = IF ~stop_event /\ master # "None"
                               THEN "if_conn" ELSE "done"]
    /\ hist' = [hist EXCEPT !.testsAfterStop = IF stop_event THEN Bump(@) ELSE @]
    /\ UNCHANGED <<shared, link, msg, payload, msg_type, client, env, lock,
                   stop_event, sent>>

\* line 55: if not self.connected
IfConnected(w) ==
    /\ pc[w] = "if_conn"
    /\ pc' = [pc EXCEPT ![w] = IF connected THEN "recv" ELSE "wait_hb"]
    /\ UNCHANGED <<shared, link, msg, payload, msg_type, client, env, lock,
                   stop_event, sent, hist>>

\* mutant of WaitHeartbeatOk: the heartbeat it returns is stored in latest
WaitHeartbeatOkStored(w) ==
    /\ pc[w] = "wait_hb"
    /\ CanDeliver
    /\ \E m \in Heartbeats, s \in SysIds, c \in CompIds :
         /\ LibPost(m, s, c)
         /\ latest' = Put(latest, "HEARTBEAT", to_dict(m))
    /\ hist' = [hist EXCEPT !.hbSeen = TRUE]
    /\ pc' = [pc EXCEPT ![w] = "lock1"]
    /\ UNCHANGED <<connected, last_seen_at, stream_requested, master, msg, payload,
                   msg_type, client, linkUp, lock, stop_event, sent>>

\* line 56: wait_heartbeat returns a heartbeat (it drops what else it reads)
WaitHeartbeatOk(w) ==
    /\ pc[w] = "wait_hb"
    /\ CanDeliver
    /\ \E m \in Heartbeats, s \in SysIds, c \in CompIds : LibPost(m, s, c)
    /\ hist' = [hist EXCEPT !.hbSeen = TRUE]
    /\ pc' = [pc EXCEPT ![w] = "lock1"]
    /\ UNCHANGED <<shared, master, msg, payload, msg_type, client, linkUp, lock, stop_event, sent>>

\* mutant of WaitHeartbeatTimeout: a timeout is taken for a heartbeat
WaitHeartbeatTimeoutConnects(w) ==
    /\ pc[w] = "wait_hb"
    /\ pc' = [pc EXCEPT ![w] = "lock1"]
    /\ UNCHANGED <<shared, link, msg, payload, msg_type, client, env, lock,
                   stop_event, sent, hist>>

\* lines 56-59: wait_heartbeat times out, sleep, continue
WaitHeartbeatTimeout(w) ==
    /\ pc[w] = "wait_hb"
    /\ pc' = [pc EXCEPT ![w] = "loop"]
    /\ UNCHANGED <<shared, link, msg, payload, msg_type, client, env, lock,
                   stop_event, sent, hist>>

\* an external call of the loop raises outside any try: the thread ends
Raise(w, at) ==
    /\ pc[w] = at
    /\ pc' = [pc EXCEPT ![w] = "crashed"]
    /\ UNCHANGED <<shared, link, msg, payload, msg_type, client, linkUp, lock, stop_event, sent, hist>>

\* line 56: wait_heartbeat raises
WaitHeartbeatRaise(w) == Raise(w, "wait_hb")

\* line 61: with self._lock
Lock1(w) ==
    /\ pc[w] = "lock1"
    /\ Acquire(w)
    /\ pc' = [pc EXCEPT ![w] = "set_conn"]
    /\ hist' = [hist EXCEPT !.locksAfterStop = IF stop_event THEN Bump(@) ELSE @]
    /\ UNCHANGED <<shared, link, msg, payload, msg_type, client, env,
                   stop_event, sent>>

\* line 62: self.connected = True
SetConnected(w) ==
    /\ pc[w] = "set_conn"
    /\ connected' = TRUE
    /\ pc' = [pc EXCEPT ![w] = "set_seen1"]
    /\ UNCHANGED <<latest, last_seen_at, stream_requested, link, msg, payload,
                   msg_type, client, env, lock, stop_event, sent, hist>>

\* line 63: self.last_seen_at = time.time(), and the lock is released
SetSeen1(w) ==
    /\ pc[w] = "set_seen1"
    /\ \E t \in Times : last_seen_at' = TimeV(t)
    /\ Release(w)
    /\ pc' = [pc EXCEPT ![w] = "rs_check"]
    /\ UNCHANGED <<connected, latest, stream_requested, link, msg, payload,
                   msg_type, client, linkUp, stop_event, sent, hist>>

\* lines 79-80: if self.master is None or self._stream_requested: return
RsCheck(w) ==
    /\ pc[w] = "rs_check"
    /\ pc' = [pc EXCEPT ![w] = IF master = "None" \/ stream_requested
                               THEN "loop" ELSE "rs_stream"]
    /\ UNCHANGED <<shared, link, msg, payload, msg_type, client, env, lock,
                   stop_event, sent, hist>>

StreamRequest == [kind |-> "REQUEST_DATA_STREAM", target_system |-> target_system,
                  target_component |-> target_component]
HomeRequest == [kind |-> "GET_HOME_POSITION", target_system |-> target_system,
                target_component |-> target_component]

\* a send inside try/except: the message goes out, or the call raises and
\* the exception is swallowed
BestEffortSend(w, at, m, next) ==
    /\ pc[w] = at
    /\ \/ sent' = Append(sent, m)
       \/ UNCHANGED sent
    /\ hist' = [hist EXCEPT !.tried[m.kind] = Bump(@)]
    /\ pc' = [pc EXCEPT ![w] = next]
    /\ UNCHANGED <<shared, link, msg, payload, msg_type, client, linkUp, lock, stop_event>>

\* mutant of RsStream: the send is retried
RsStreamRetry(w) == BestEffortSend(w, "rs_stream", StreamRequest, "rs_stream")

\* lines 82-91: request_data_stream_send
RsStream(w) == BestEffortSend(w, "rs_stream", StreamRequest, "rs_home")

\* lines 93-108: command_long_send(MAV_CMD_GET_HOME_POSITION)
RsHome(w) == BestEffortSend(w, "rs_home", HomeRequest, "rs_flag")

\* mutant of RsFlag: the flag is set only when both sends went out
RsFlagUnlessFailed(w) ==
    /\ pc[w] = "rs_flag"
    /\ stream_requested' = (Len(sent) = 2)
    /\ pc' = [pc EXCEPT ![w] = "loop"]
    /\ UNCHANGED <<connected, latest, last_seen_at, link, msg, payload, msg_type,
                   client, env, lock, stop_event, sent, hist>>

\* line 110: self._stream_requested = True, return, continue
RsFlag(w) ==
    /\ pc[w] = "rs_flag"
    /\ stream_requested' = TRUE
    /\ pc' = [pc EXCEPT ![w] = "loop"]
    /\ UNCHANGED <<connected, latest, last_seen_at, link, msg, payload, msg_type,
                   client, env, lock, stop_event, sent, hist>>

\* line 67: recv_match returns a watched message
RecvMsg(w) ==
    /\ pc[w] = "recv"
    /\ CanDeliver
    /\ \E m \in Messages, s \in SysIds, c \in CompIds :
         /\ m.type \in watched
         /\ LibPost(m, s, c)
         /\ msg' = [msg EXCEPT ![w] = m]
         /\ hist' = [hist EXCEPT !.lastRecv = Put(@, m.type, to_dict(m)),
                                 !.hbSeen = @ \/ m.type = "HEARTBEAT"]
    /\ pc' = [pc EXCEPT ![w] = "decode"]
    /\ UNCHANGED <<shared, master, payload, msg_type, client, linkUp, lock, stop_event, sent>>

\* mutant of RecvNone: a poll without a message marks the link disconnected
RecvNoneDisconnect(w) ==
    /\ pc[w] = "recv"
    /\ connected' = FALSE
    /\ pc' = [pc EXCEPT ![w] = "loop"]
    /\ UNCHANGED <<latest, last_seen_at, stream_requested, link, msg, payload,
                   msg_type, client, env, lock, stop_event, sent, hist>>

\* lines 67-70: recv_match returns None, sleep, continue
RecvNone(w) ==
    /\ pc[w] = "recv"
    /\ pc' = [pc EXCEPT ![w] = "loop"]
    /\ UNCHANGED <<shared, link, msg, payload, msg_type, client, env, lock,
                   stop_event, sent, hist>>

\* line 67: recv_match raises
RecvRaise(w) == Raise(w, "recv")

\* lines 72-73: payload = msg.to_dict(); msg_type = payload.get("mavpackettype", "UNKNOWN")
Decode(w) ==
    /\ pc[w] = "decode"
    /\ payload' = [payload EXCEPT ![w] = to_dict(msg[w])]
    /\ msg_type' = [msg_type EXCEPT ![w] =
                      Get(to_dict(msg[w]), "mavpackettype", StrV("UNKNOWN")).s]
    /\ pc' = [pc EXCEPT ![w] = "lock2"]
    /\ UNCHANGED <<shared, link, msg, client, env, lock, stop_event, sent, hist>>

\* line 72: to_dict raises
DecodeRaise(w) == Raise(w, "decode")

\* line 74: with self._lock
Lock2(w) ==
    /\ pc[w] = "lock2"
    /\ Acquire(w)
    /\ pc' = [pc EXCEPT ![w] = "write_latest"]
    /\ hist' = [hist EXCEPT !.locksAfterStop = IF stop_event THEN Bump(@) ELSE @]
    /\ UNCHANGED <<shared, link, msg, payload, msg_type, client, env,
                   stop_event, sent>>

\* mutant of WriteLatest: setdefault, an entry is written once and kept
WriteLatestKeepFirst(w) ==
    /\ pc[w] = "write_latest"
    /\ latest' = IF msg_type[w] \in DOMAIN latest
                 THEN latest ELSE Put(latest, msg_type[w], payload[w])
    /\ pc' = [pc EXCEPT ![w] = "set_seen2"]
    /\ UNCHANGED <<connected, last_seen_at, stream_requested, link, msg, payload,
                   msg_type, client, env, lock, stop_event, sent, hist>>

\* line 75: self.latest[msg_type] = payload
WriteLatest(w) ==
    /\ pc[w] = "write_latest"
    /\ latest' = Put(latest, msg_type[w], payload[w])
    /\ pc' = [pc EXCEPT ![w] = "set_seen2"]
    /\ hist' = [hist EXCEPT !.replaced =
                   @ \/ (msg_type[w] \in DOMAIN latest /\ latest[msg_type[w]] # payload[w])]
    /\ UNCHANGED <<connected, last_seen_at, stream_requested, link, msg, payload,
                   msg_type, client, env, lock, stop_event, sent>>

\* line 76: self.last_seen_at = time.time(), and the lock is released
SetSeen2(w) ==
    /\ pc[w] = "set_seen2"
    /\ \E t \in Times : last_seen_at' = TimeV(t)
    /\ Release(w)
    /\ pc' = [pc EXCEPT ![w] = "loop"]
    \* msg, payload and msg_type are dead until line 67 assigns them again
    /\ msg' = [msg EXCEPT ![w] = NoMsg]
    /\ payload' = [payload EXCEPT ![w] = EmptyDict]
    /\ msg_type' = [msg_type EXCEPT ![w] = ""]
    /\ UNCHANGED <<connected, latest, stream_requested, link, client, linkUp, stop_event, sent, hist>>

Reader(w) ==
    \/ LoopTest(w) \/ IfConnected(w)
    \/ WaitHeartbeatOk(w) \/ WaitHeartbeatTimeout(w)
    \/ WaitHeartbeatRaise(w)
    \/ Lock1(w) \/ SetConnected(w) \/ SetSeen1(w)
    \/ RsCheck(w) \/ RsStream(w) \/ RsHome(w) \/ RsFlag(w)
    \/ RecvMsg(w) \/ RecvNone(w) \/ RecvRaise(w)
    \/ Decode(w) \/ DecodeRaise(w)
    \/ Lock2(w) \/ WriteLatest(w) \/ SetSeen2(w)

(* --------------------------- snapshot ---------------------------------- *)
\* self.latest.get(t, {})
LatestGet(t) == IF t \in DOMAIN latest THEN latest[t] ELSE EmptyDict

\* line 113: with self._lock
SnapshotEnter ==
    /\ cpc = "idle"
    /\ Acquire("client")
    /\ cpc' = "s_latest"
    /\ cloc' = NoLocals
    /\ cres' = NoResult
    /\ hist' = [hist EXCEPT !.snapAfterDrop = ~linkUp]
    /\ UNCHANGED <<shared, link, reader, creq, env, stop_event, sent>>

\* mutant of SnapReadLatest: setdefault instead of get, the reads insert {}
SnapReadLatestSetDefault ==
    /\ cpc = "s_latest"
    /\ cloc' = [cloc EXCEPT !.raw = [t \in watched |-> LatestGet(t)]]
    /\ latest' = [t \in watched |-> LatestGet(t)]
    /\ cpc' = "s_link"
    /\ UNCHANGED <<connected, last_seen_at, stream_requested, link, reader, creq,
                   cres, env, lock, stop_event, sent, hist>>

\* lines 114-126: pos, att, gps, hb, sys_status, home
SnapReadLatest ==
    /\ cpc = "s_latest"
    /\ cloc' = [cloc EXCEPT !.raw = [t \in watched |-> LatestGet(t)]]
    /\ cpc' = "s_link"
    /\ UNCHANGED <<shared, link, reader, creq, cres, env, lock, stop_event,
                   sent, hist>>

\* lines 129-130: "connected": self.connected, "last_seen_at": self.last_seen_at
SnapReadLinkState ==
    /\ cpc = "s_link"
    /\ cloc' = [cloc EXCEPT !.connected = connected, !.last_seen_at = last_seen_at]
    /\ cpc' = "s_target"
    /\ UNCHANGED <<shared, link, reader, creq, cres, env, lock, stop_event,
                   sent, hist>>

\* lines 131-132: self.master.target_system if self.master else 0, and
\* the same for target_component
SnapReadTarget ==
    /\ cpc = "s_target"
    /\ cloc' = [cloc EXCEPT !.tsys = IF master # "None" THEN target_system ELSE 0,
                            !.tcomp = IF master # "None" THEN target_component ELSE 0]
    /\ cpc' = "s_build"
    /\ UNCHANGED <<shared, link, reader, creq, cres, env, lock, stop_event,
                   sent, hist>>

\* lines 128-166: the dict snapshot() builds from what it read
BuildSnapshot(l) ==
    LET pos == l.raw["GLOBAL_POSITION_INT"]
        att == l.raw["ATTITUDE"]
        gps == l.raw["GPS_RAW_INT"]
        sys_status == l.raw["SYS_STATUS"]
        home == l.raw["HOME_POSITION"]
    IN  DictV([
          connected |-> BoolV(l.connected),
          last_seen_at |-> l.last_seen_at,
          target_system |-> IntV(l.tsys),
          target_component |-> IntV(l.tcomp),
          position |-> DictV([
              lat_deg |-> DivOrNone(Get(pos, "lat", None), E7),
              lon_deg |-> DivOrNone(Get(pos, "lon", None), E7),
              relative_alt_m |-> DivOrNone(Get(pos, "relative_alt", None), Milli)]),
          home |-> DictV([
              lat_deg |-> DivOrNone(Get(home, "latitude", None), E7),
              lon_deg |-> DivOrNone(Get(home, "longitude", None), E7),
              alt_m |-> DivOrNone(Get(home, "altitude", None), Milli)]),
          attitude |-> DictV([
              roll_rad |-> Get(att, "roll", None),
              pitch_rad |-> Get(att, "pitch", None),
              yaw_rad |-> Get(att, "yaw", None)]),
          gps |-> DictV([
              fix_type |-> Get(gps, "fix_type", None),
              satellites_visible |-> Get(gps, "satellites_visible", None)]),
          battery |-> DictV([
              voltage_v |-> VoltageV(sys_status),
              remaining_pct |-> Get(sys_status, "battery_remaining", None)]),
          raw |-> DictV(l.raw)])

\* lines 128-167: build the dict and sanitize it, still inside the with block
SnapBuild ==
    /\ cpc = "s_build"
    /\ cres' = [kind |-> "snapshot", value |-> _sanitize_for_json(BuildSnapshot(cloc))]
    /\ cpc' = "s_done"
    /\ UNCHANGED <<shared, link, reader, creq, cloc, env, lock, stop_event,
                   sent, hist>>

\* line 167: return: the with block releases the lock and the value goes to
\* the caller; the call's locals are gone
SnapReturn ==
    /\ cpc = "s_done"
    /\ Release("client")
    /\ cpc' = "idle"
    /\ cloc' = NoLocals
    /\ cres' = NoResult
    /\ hist' = [hist EXCEPT !.snapAfterDrop = FALSE]
    /\ UNCHANGED <<shared, link, reader, creq, env, stop_event, sent>>

snapshot ==
    \/ SnapshotEnter \/ SnapReadLatest \/ SnapReadLinkState \/ SnapReadTarget
    \/ SnapBuild \/ SnapReturn

(* ----------------------- send_manual_control --------------------------- *)
Error(text) == [kind |-> "error", value |-> StrV(text)]
Ok == [kind |-> "ok", value |-> None]

\* manual_control(req) calls mav.send_manual_control(req)
McEnter ==
    /\ cpc = "idle"
    /\ \E req \in Requests : creq' = req
    /\ cloc' = NoLocals
    /\ cres' = NoResult
    /\ cpc' = "mc_170"
    /\ UNCHANGED <<shared, link, reader, linkUp, lock,
                   stop_event, sent, hist>>

\* lines 170-171: if self.master is None: raise
McCheckMaster ==
    /\ cpc = "mc_170"
    /\ cloc' = [cloc EXCEPT !.master = master]
    /\ IF master = "None"
       THEN /\ cres' = Error("MAVLink connection is not initialized")
            /\ cpc' = "mc_done"
       ELSE /\ cpc' = "mc_172"
            /\ UNCHANGED cres
    /\ UNCHANGED <<shared, link, reader, creq, env, lock, stop_event, sent, hist>>

\* mutant of McCheckTarget: target_system is not tested
McCheckTargetSkipped ==
    /\ cpc = "mc_172"
    /\ cloc' = [cloc EXCEPT !.tsys = target_system]
    /\ cpc' = "mc_175"
    /\ UNCHANGED <<shared, link, reader, creq, cres, env, lock, stop_event,
                   sent, hist>>

\* lines 172-173: if self.master.target_system == 0: raise
McCheckTarget ==
    /\ cpc = "mc_172"
    /\ cloc' = [cloc EXCEPT !.tsys = target_system]
    /\ IF target_system = 0
       THEN /\ cres' = Error("Target system is unknown. Wait for heartbeat first")
            /\ cpc' = "mc_done"
       ELSE /\ cpc' = "mc_175"
            /\ UNCHANGED cres
    /\ UNCHANGED <<shared, link, reader, creq, env, lock, stop_event, sent, hist>>

\* mutant of ManualControl: x and y change places
ManualControlSwapped(tsys, req) ==
    [kind |-> "MANUAL_CONTROL", target_system |-> tsys, x |-> req.y, y |-> req.x,
     z |-> req.z, r |-> req.r, buttons |-> req.buttons]

\* lines 175-182: the MANUAL_CONTROL message manual_control_send encodes
ManualControl(tsys, req) ==
    [kind |-> "MANUAL_CONTROL", target_system |-> tsys, x |-> req.x, y |-> req.y,
     z |-> req.z, r |-> req.r, buttons |-> req.buttons]

\* lines 175-182: manual_control_send: the message goes out, or the call
\* raises and the exception reaches the caller
McSend ==
    /\ cpc = "mc_175"
    /\ \/ /\ cloc' = [cloc EXCEPT !.out = Append(@, ManualControl(target_system, creq))]
          /\ cres' = Ok
       \/ /\ cres' = Error("send failed")
          /\ UNCHANGED cloc
    /\ cpc' = "mc_done"
    /\ UNCHANGED <<shared, link, reader, creq, env, lock, stop_event, sent, hist>>

\* send_manual_control returns or raises to manual_control, which answers;
\* the call's locals are gone
McReturn ==
    /\ cpc = "mc_done"
    /\ cpc' = "idle"
    /\ creq' = NoReq
    /\ cloc' = NoLocals
    /\ cres' = NoResult
    /\ UNCHANGED <<shared, link, reader, env, lock, stop_event, sent, hist>>

send_manual_control ==
    McEnter \/ McCheckMaster \/ McCheckTarget \/ McSend \/ McReturn

(* --------------------------- lifecycle --------------------------------- *)
Alive(w) == pc[w] \notin {"unborn", "done", "crashed"}

\* lines 34-38: start(), called once by startup_event
start ==
    /\ cpc = "idle"
    /\ master = "None"
    /\ master' = "conn"
    /\ target_system' = 0
    /\ target_component' = 0
    /\ stop_event' = FALSE
    /\ \E w \in Workers : pc[w] = "unborn"
    /\ pc' = [pc EXCEPT ![CHOOSE w \in Workers : pc[w] = "unborn"] = "loop"]
    /\ UNCHANGED <<shared, msg, payload, msg_type, client, env, lock, sent, hist>>

\* lines 40-43: stop(), called once by shutdown_event
stop ==
    /\ cpc = "idle"
    /\ master # "None"
    /\ ~stop_event
    /\ stop_event' = TRUE
    /\ cpc' = IF \E w \in Workers : Alive(w) THEN "joining" ELSE "idle"
    /\ UNCHANGED <<shared, link, reader, creq, cloc, cres, env, lock, sent, hist>>

\* line 43: join(timeout=1.0) returns: the thread has ended or the second is over
JoinReturn ==
    /\ cpc = "joining"
    /\ cpc' = "idle"
    /\ UNCHANGED <<shared, link, reader, creq, cloc, cres, env, lock, stop_event,
                   sent, hist>>

Next ==
    \/ \E w \in Workers : Reader(w)
    \/ snapshot
    \/ send_manual_control
    \/ start
    \/ stop
    \/ JoinReturn
    \/ DropLink

Spec == Init /\ [][Next]_vars

(* ------------------- start() and stop() called again ------------------ *)
\* lines 34-38: start() on a service that has been started before: a new
\* link handle replaces the old one, the stop signal is cleared and one more
\* thread runs _reader_loop
start_again ==
    /\ cpc = "idle"
    /\ master # "None"
    /\ master' = "conn"
    /\ target_system' = 0
    /\ target_component' = 0
    /\ stop_event' = FALSE
    /\ \E w \in Workers : pc[w] = "unborn"
    /\ pc' = [pc EXCEPT ![CHOOSE w \in Workers : pc[w] = "unborn"] = "loop"]
    /\ UNCHANGED <<shared, msg, payload, msg_type, client, env, lock, sent, hist>>

\* a step of _reader_loop while the vehicle sends heartbeats and nothing else
\* after them: the handshake, the two requests, and polls that find nothing
ReaderQuiet(w) ==
    \/ LoopTest(w) \/ IfConnected(w)
    \/ WaitHeartbeatOk(w) \/ WaitHeartbeatTimeout(w)
    \/ WaitHeartbeatRaise(w)
    \/ Lock1(w) \/ SetConnected(w) \/ SetSeen1(w)
    \/ RsCheck(w) \/ RsStream(w) \/ RsHome(w) \/ RsFlag(w)
    \/ RecvNone(w) \/ RecvRaise(w)

RestartNext ==
    \/ \E w \in Workers : ReaderQuiet(w)
    \/ start
    \/ stop
    \/ JoinReturn
    \/ start_again

\* the service with start() and stop() called in any order, no telemetry
\* arriving and no client request in between
RestartSpec == Init /\ [][RestartNext]_vars

(* ------------------- snapshot() as a function of the cache ------------- *)
\* payloads line 72 can have stored, by message type; None: no message of
\* the type has been stored
PositionPayloads ==
    { None,
      to_dict(Msg("GLOBAL_POSITION_INT",
          [lat |-> IntV(123456780), lon |-> IntV(0), relative_alt |-> IntV(1500)])),
      to_dict(Msg("GLOBAL_POSITION_INT",
          [lat |-> IntV(0), lon |-> IntV(-5), relative_alt |-> IntV(0)])) }
AttitudePayloads ==
    { None,
      to_dict(Msg("ATTITUDE", [roll |-> NaN, pitch |-> Ratio(1, 2), yaw |-> Ratio(0, 1)])) }
SysStatusPayloads ==
    { None,
      to_dict(Msg("SYS_STATUS", [voltage_battery |-> IntV(0), battery_remaining |-> IntV(0)])),
      to_dict(Msg("SYS_STATUS", [voltage_battery |-> IntV(12600), battery_remaining |-> IntV(-1)])) }
GpsPayloads ==
    { None,
      to_dict(Msg("GPS_RAW_INT", [fix_type |-> IntV(3), satellites_visible |-> IntV(0)])) }
HomePayloads ==
    { None,
      to_dict(Msg("HOME_POSITION",
          [latitude |-> IntV(0), longitude |-> IntV(473977420), altitude |-> IntV(-1500),
           approach_x |-> Inf,
           q |-> ListV(<<Ratio(1, 1), NaN, FloatV("-inf", 0, 1), Ratio(0, 1)>>)])) }
HeartbeatPayloads ==
    { None, to_dict(Msg("HEARTBEAT", [custom_mode |-> IntV(0)])) }

\* self.latest with the payloads c that are not None
Cache(c) == [t \in {u \in DOMAIN c : c[u] # None} |-> c[t]]

\* a connected service that has stored some messages: the state snapshot()
\* is applied to
SnapInit ==
    /\ master = "conn"
    /\ target_system \in SysIds
    /\ target_component \in CompIds
    /\ connected = TRUE
    /\ \E p \in PositionPayloads, a \in AttitudePayloads, s \in SysStatusPayloads,
          g \in GpsPayloads, h \in HomePayloads, b \in HeartbeatPayloads :
         latest = Cache([GLOBAL_POSITION_INT |-> p, ATTITUDE |-> a, SYS_STATUS |-> s,
                         GPS_RAW_INT |-> g, HOME_POSITION |-> h, HEARTBEAT |-> b])
    /\ last_seen_at = TimeV(0)
    /\ lock = "free"
    /\ stop_event = FALSE
    /\ stream_requested = TRUE
    /\ pc = [w \in Workers |-> IF w = "w1" THEN "recv" ELSE "unborn"]
    /\ msg = [w \in Workers |-> NoMsg]
    /\ payload = [w \in Workers |-> EmptyDict]
    /\ msg_type = [w \in Workers |-> ""]
    /\ cpc = "idle"
    /\ creq = NoReq
    /\ cloc = NoLocals
    /\ cres = NoResult
    /\ linkUp = TRUE
    /\ sent = <<>>
    /\ hist = [Hist0 EXCEPT !.hbSeen = TRUE,
                            !.tried = [REQUEST_DATA_STREAM |-> 1, GET_HOME_POSITION |-> 1]]

\* telemetry() calls mav.snapshot()
SnapNext == snapshot

SnapSpec == SnapInit /\ [][SnapNext]_vars

(* --------------------------- properties -------------------------------- *)
Pos1 == to_dict(Msg("GLOBAL_POSITION_INT",
          [lat |-> IntV(123456780), lon |-> IntV(0), relative_alt |-> IntV(1500)]))

\* a reader thread holds a message it has taken from the link and not yet stored
InFlight(w) == pc[w] \in {"decode", "lock2", "write_latest", "set_seen2"}

\* the value snapshot() is returning
Returned == cres.value.m

\* C1, in every state: while no message is between line 67 and line 76 (and
\* no thread died holding one), latest has exactly the types received so far,
\* each with the payload received last for it.
C1_CacheIsLastReceived ==
    (\A w \in Workers : ~InFlight(w) /\ pc[w] # "crashed")
        => /\ DOMAIN latest = DOMAIN hist.lastRecv
           /\ DOMAIN latest \subseteq watched
           /\ \A t \in DOMAIN latest : latest[t] = hist.lastRecv[t]

\* C1, in every step that changes latest: one type t gets the payload of the
\* message of type t received last, and every other entry stays as it was.
C1_OneEntryReplaced ==
    latest' # latest =>
        \E t \in watched :
            /\ DOMAIN latest' = DOMAIN latest \cup {t}
            /\ t \in DOMAIN hist.lastRecv
            /\ latest'[t] = hist.lastRecv[t]
            /\ \A u \in DOMAIN latest \ {t} : latest'[u] = latest[u]

\* C1: the cache is last-write-wins per message type: after any sequence of
\* processed messages it holds one entry per type, the payload processed last,
\* and a new message replaces the entry of its type in one step and leaves
\* the entries of the other types unchanged.
C1_LastWriteWins == [](C1_CacheIsLastReceived) /\ [][C1_OneEntryReplaced]_vars

\* a payload has replaced another of its type, another type is cached too,
\* and the loop is back at its head
C1_Witness ==
    /\ hist.replaced
    /\ pc["w1"] = "loop"
    /\ Cardinality(DOMAIN latest) >= 2
    /\ "GLOBAL_POSITION_INT" \in DOMAIN latest
    /\ latest["GLOBAL_POSITION_INT"] = Pos1

\* C2: a snapshot() that runs while the loop is writing reads connected,
\* last_seen_at and the payloads as they are together at one instant: while
\* it holds what it read, that is the state of the cache, and the value it
\* returns never has connected=true with last_seen_at unset, nor a cached
\* payload with last_seen_at unset.
C2_SnapshotNotTorn ==
    /\ cpc \in {"s_link", "s_target", "s_build", "s_done"}
         => cloc.raw = [t \in watched |-> LatestGet(t)]
    /\ cpc \in {"s_target", "s_build", "s_done"}
         => /\ cloc.connected = connected
            /\ cloc.last_seen_at = last_seen_at
    /\ cpc = "s_done"
         => /\ Returned.connected = BoolV(connected)
            /\ Returned.last_seen_at = last_seen_at
            /\ Returned.raw = _sanitize_for_json(DictV([t \in watched |-> LatestGet(t)]))
            /\ Returned.connected = BoolV(TRUE) => Returned.last_seen_at # None
            /\ (\E t \in watched : Returned.raw.m[t] # EmptyDict)
                 => /\ Returned.last_seen_at # None
                    /\ Returned.connected = BoolV(TRUE)

\* a snapshot returns cached payloads while the loop waits for the lock with
\* the next message
C2_Witness ==
    /\ cpc = "s_done"
    /\ pc["w1"] = "lock2"
    /\ \E t \in watched : Returned.raw.m[t] # EmptyDict

AllNone(d) == \A f \in DOMAIN d.m : d.m[f] = None

\* C3: a snapshot() that returns before the first heartbeat has been
\* received reports connected=false, target_system=0, target_component=0 and
\* every field of position, home, attitude, gps and battery as null.
C3_SnapshotBeforeHeartbeat ==
    (cpc = "s_done" /\ ~hist.hbSeen)
        => /\ Returned.connected = BoolV(FALSE)
           /\ Returned.target_system = IntV(0)
           /\ Returned.target_component = IntV(0)
           /\ \A g \in {"position", "home", "attitude", "gps", "battery"} :
                /\ DOMAIN Returned[g].m # {}
                /\ AllNone(Returned[g])

\* a snapshot returns while the started loop still waits for its first heartbeat
C3_Witness ==
    /\ cpc = "s_done"
    /\ ~hist.hbSeen
    /\ pc["w1"] = "wait_hb"

NotInitialized == Error("MAVLink connection is not initialized")
TargetUnknown == Error("Target system is unknown. Wait for heartbeat first")

\* C4: send_manual_control ends with the "not initialized" error when it
\* finds master None and with the "target unknown" error when it finds
\* target_system 0; in both cases it raises to its caller and has handed no
\* message to the link.
C4_PreconditionErrors ==
    cpc = "mc_done"
        => /\ cloc.master = "None" => (cres = NotInitialized /\ cloc.out = <<>>)
           /\ (cloc.master # "None" /\ cloc.tsys = 0)
                => (cres = TargetUnknown /\ cloc.out = <<>>)
           /\ master = "None" => cres = NotInitialized
           /\ target_system = 0 => (cres.kind = "error" /\ cloc.out = <<>>)

\* a call made after start() and before the first heartbeat has raised
C4_Witness ==
    /\ cpc = "mc_done"
    /\ cres = TargetUnknown
    /\ pc["w1"] = "wait_hb"

\* the call found a link handle and a nonzero target
McPassedChecks == cpc = "mc_done" /\ cloc.master # "None" /\ cloc.tsys # 0

\* C5 as claimed: every call made while target_system is nonzero succeeds
\* and hands exactly one manual-control message to the link.
C5_AlwaysSucceeds ==
    McPassedChecks => (cres = Ok /\ Len(cloc.out) = 1)

\* C5: a call made while target_system is nonzero hands at most one
\* manual-control message to the link and does not retry: it succeeds exactly
\* when manual_control_send did not raise, and then the one message is
\* addressed to the target and carries the request's x, y, z, r and buttons;
\* when the send raises, the call fails and nothing was handed over.
C5_OneSendPerCall ==
    McPassedChecks
        => /\ Len(cloc.out) <= 1
           /\ cres = Ok <=> Len(cloc.out) = 1
           /\ cres # Ok => cres = Error("send failed")
           /\ Len(cloc.out) = 1
                => /\ cloc.out[1].kind = "MANUAL_CONTROL"
                   /\ cloc.out[1].target_system = target_system
                   /\ cloc.out[1].target_system \in SysIds
                   /\ cloc.out[1].x = creq.x
                   /\ cloc.out[1].y = creq.y
                   /\ cloc.out[1].z = creq.z
                   /\ cloc.out[1].r = creq.r
                   /\ cloc.out[1].buttons = creq.buttons

\* a call has sent its message while the loop is in the middle of an iteration
C5_Witness ==
    /\ McPassedChecks
    /\ cres = Ok
    /\ creq.x = -1000
    /\ pc["w1"] = "write_latest"

Count(kind) == Cardinality({i \in DOMAIN sent : sent[i].kind = kind})

\* C6: the loop sends the stream request at most once, however many
\* heartbeats and telemetry messages it processes afterwards.
C6_StreamRequestedOnce == Count("REQUEST_DATA_STREAM") <= 1

\* the stream request is out, and a later heartbeat and a telemetry message
\* have been processed
C6_Witness ==
    /\ Count("REQUEST_DATA_STREAM") = 1
    /\ stream_requested
    /\ {"HEARTBEAT", "ATTITUDE"} \subseteq DOMAIN latest
    /\ pc["w1"] = "loop"

\* C7 as claimed: no failure of an external call ends the loop; a reader
\* thread ends only after the stop signal.
C7_OnlyStopEndsLoop ==
    \A w \in Workers : pc[w] \in {"done", "crashed"} => stop_event

\* C8, safety: after stop() the loop tests its condition at most once more and
\* enters at most one more locked write.
C8_OneMoreIteration ==
    /\ hist.testsAfterStop <= 1
    /\ hist.locksAfterStop <= 1

\* how many steps a reader thread is from its end at most, once the stop
\* signal is set
Rank(at) ==
    CASE at \in {"unborn", "done", "crashed"} -> 0
      [] at = "loop" -> 1
      [] at \in {"set_seen2", "rs_flag"} -> 2
      [] at \in {"write_latest", "rs_home"} -> 3
      [] at \in {"lock2", "rs_stream"} -> 4
      [] at \in {"decode", "rs_check"} -> 5
      [] at \in {"recv", "set_seen1"} -> 6
      [] at = "set_conn" -> 7
      [] at = "lock1" -> 8
      [] at = "wait_hb" -> 9
      [] at = "if_conn" -> 10

\* C8, progress: once the stop signal is set, every step of a reader thread
\* brings it nearer to its end.
C8_StepsRunOut ==
    \A w \in Workers :
        (stop_event /\ pc'[w] # pc[w]) => Rank(pc'[w]) < Rank(pc[w])

\* the lock is held only by a thread inside its with block
LockHeldInside ==
    /\ lock = "client" => cpc \in {"s_latest", "s_link", "s_target", "s_build", "s_done"}
    /\ \A w \in Workers :
         lock = w => pc[w] \in {"set_conn", "set_seen1", "write_latest", "set_seen2"}

\* C8, progress: after stop() a live reader thread is never stuck: its waits
\* for a heartbeat and for a message can end without one, and the lock it
\* waits for is free or held by a thread that is on its way to release it.
C8_NeverStuck ==
    /\ LockHeldInside
    /\ \A w \in Workers :
         /\ (stop_event /\ pc[w] = "wait_hb") => ENABLED WaitHeartbeatTimeout(w)
         /\ (stop_event /\ pc[w] = "recv") => ENABLED RecvNone(w)

\* C8: once stop() has set the stop signal the loop finishes at most the
\* iteration it is in, with at most one more locked write, and then ends:
\* under fair scheduling it ends because it is never stuck and each of its
\* steps after stop() brings it nearer to its end, from the Disconnected
\* branch as from the Connected one.
C8_StopEndsLoop ==
    /\ [](C8_OneMoreIteration)
    /\ [](C8_NeverStuck)
    /\ [][C8_StepsRunOut]_vars

\* the loop has ended after stop(), having written once more
C8_Witness ==
    /\ stop_event
    /\ pc["w1"] = "done"
    /\ hist.locksAfterStop = 1
    /\ connected

\* the event-loop thread moves inside snapshot() or send_manual_control()
ClientStep ==
    /\ <<cpc, cloc, cres, creq>>' # <<cpc, cloc, cres, creq>>
    /\ cpc # "joining"
    /\ cpc' # "joining"

\* C9: no step of snapshot() or send_manual_control() changes connected,
\* last_seen_at, latest or _stream_requested; they change only in steps of a
\* reader thread.
C9_ClientsOnlyRead ==
    [][/\ ClientStep => shared' = shared
       /\ shared' # shared => \E w \in Workers : pc'[w] # pc[w]]_vars

\* a snapshot has been built from a filled cache of a connected service
C9_Witness ==
    /\ cpc = "s_done"
    /\ connected
    /\ stream_requested
    /\ DOMAIN latest # {}
    /\ Returned.raw.m["ATTITUDE"] # EmptyDict

\* C10 as claimed: a snapshot taken after the link dropped reports the
\* cached values with connected=false.
C10_StaleMeansDisconnected ==
    (cpc = "s_done" /\ hist.snapAfterDrop /\ DOMAIN latest # {})
        => Returned.connected = BoolV(FALSE)

\* C10: a snapshot taken after the link dropped still reports every cached
\* payload, and reports connected as the loop set it: connected is never
\* reset, so with cached values it is true.
C10_StaleStaysConnected ==
    (cpc = "s_done" /\ hist.snapAfterDrop)
        => /\ \A t \in DOMAIN latest :
                Returned.raw.m[t] = _sanitize_for_json(latest[t])
           /\ Returned.connected = BoolV(connected)
           /\ DOMAIN latest # {} => Returned.connected = BoolV(TRUE)

\* a snapshot taken after the drop reports a cached position
C10_Witness ==
    /\ cpc = "s_done"
    /\ hist.snapAfterDrop
    /\ ~linkUp
    /\ Returned.raw.m["GLOBAL_POSITION_INT"] = Pos1
    /\ pc["w1"] = "recv"

\* C11 as claimed: every snapshot that reports connected=false reports
\* target_system=0 and target_component=0, also when it runs while the loop
\* is receiving its first heartbeat.
C11_TargetZeroWhileDisconnected ==
    (cpc = "s_done" /\ Returned.connected = BoolV(FALSE))
        => /\ Returned.target_system = IntV(0)
           /\ Returned.target_component = IntV(0)

\* a thread is at a statement that transmits on the link
ReaderSending(w) == pc[w] \in {"rs_stream", "rs_home"}
ClientSending == cpc = "mc_175"

\* C12 as claimed: the sends are serialized: the event-loop thread is never
\* at its manual-control send while a reader thread is at its stream request
\* or its home request on the same link.
C12_SendsSerialized ==
    ~(ClientSending /\ \E w \in Workers : ReaderSending(w))

\* the derived fields of a snapshot: group and field, the message type and
\* source field they come from, and the divisor (0: passed through)
Field(g, f, t, src, den) == [group |-> g, field |-> f, type |-> t, src |-> src, den |-> den]
DerivedFields ==
    { Field("position", "lat_deg", "GLOBAL_POSITION_INT", "lat", 10000000),
      Field("position", "lon_deg", "GLOBAL_POSITION_INT", "lon", 10000000),
      Field("position", "relative_alt_m", "GLOBAL_POSITION_INT", "relative_alt", 1000),
      Field("home", "lat_deg", "HOME_POSITION", "latitude", 10000000),
      Field("home", "lon_deg", "HOME_POSITION", "longitude", 10000000),
      Field("home", "alt_m", "HOME_POSITION", "altitude", 1000),
      Field("attitude", "roll_rad", "ATTITUDE", "roll", 0),
      Field("attitude", "pitch_rad", "ATTITUDE", "pitch", 0),
      Field("attitude", "yaw_rad", "ATTITUDE", "yaw", 0),
      Field("gps", "fix_type", "GPS_RAW_INT", "fix_type", 0),
      Field("gps", "satellites_visible", "GPS_RAW_INT", "satellites_visible", 0),
      Field("battery", "voltage_v", "SYS_STATUS", "voltage_battery", 1000),
      Field("battery", "remaining_pct", "SYS_STATUS", "battery_remaining", 0) }

\* the cached source field of a derived field; None when the type was never
\* stored or the payload has no such field
SourceOf(f) ==
    IF f.type \in DOMAIN latest /\ f.src \in DOMAIN latest[f.type].m
    THEN latest[f.type].m[f.src] ELSE None

\* the derived field as the snapshot being returned reports it
ReportedOf(f) == Returned[f.group].m[f.field]

NonFinite(v) == v.k = "float" /\ v.cls # "finite"
Zero == FloatV("finite", 0, 1)

\* r is the float x / den, for an integer x
IsQuotient(r, x, den) ==
    /\ r.k = "float"
    /\ r.cls = "finite"
    /\ r.d > 0
    /\ den % r.d = 0
    /\ r.n * (den \div r.d) = x.n

\* the value a present, finite source field x is converted to
Converted(f, x, r) ==
    IF f.den = 0 THEN r = x
    ELSE /\ IsQuotient(r, x, f.den)
         /\ x = IntV(0) => r = Zero

\* C13 as claimed: a derived field is null exactly when its source field is
\* absent, and otherwise is the converted source value.
C13_AbsentIffSourceAbsent ==
    cpc = "s_done" =>
        \A f \in DerivedFields :
            /\ ReportedOf(f) = None <=> SourceOf(f) = None
            /\ SourceOf(f) # None => Converted(f, SourceOf(f), ReportedOf(f))

\* C13: in every snapshot each derived field depends on its cached source
\* field alone: it is null exactly when the source field is absent or is a
\* non-finite float, and otherwise is the converted value (lat/lon divided by
\* 1e7, altitudes and voltage by 1000, the others passed through); a measured
\* zero is reported as zero and not as null; lat=123456780 and
\* relative_alt=1500 give lat_deg=12.345678 and relative_alt_m=1.5.
C13_DerivedFromSource ==
    cpc = "s_done" =>
        /\ \A f \in DerivedFields :
            /\ ReportedOf(f) = None <=> (SourceOf(f) = None \/ NonFinite(SourceOf(f)))
            /\ (SourceOf(f) # None /\ ~NonFinite(SourceOf(f)))
                 => Converted(f, SourceOf(f), ReportedOf(f))
        /\ ("GLOBAL_POSITION_INT" \in DOMAIN latest /\ latest["GLOBAL_POSITION_INT"] = Pos1)
             => /\ Returned.position.m.lat_deg = Ratio(12345678, 1000000)
                /\ Returned.position.m.relative_alt_m = Ratio(15, 10)

\* a snapshot reports a measured zero latitude and a zero battery voltage as
\* zero, a NaN roll as null, and the home fields as null as no home position
\* was stored
C13_Witness ==
    /\ cpc = "s_done"
    /\ Returned.position.m.lat_deg = Zero
    /\ Returned.battery.m.voltage_v = Zero
    /\ Returned.battery.m.remaining_pct = IntV(0)
    /\ "ATTITUDE" \in DOMAIN latest
    /\ Returned.attitude.m.roll_rad = None
    /\ "HOME_POSITION" \notin DOMAIN latest
    /\ Returned.home.m.alt_m = None

\* no non-finite float anywhere in v
RECURSIVE AllFinite(_)
AllFinite(v) ==
    IF v.k = "dict" THEN \A x \in DOMAIN v.m : AllFinite(v.m[x])
    ELSE IF v.k \in {"list", "tuple"} THEN \A i \in DOMAIN v.items : AllFinite(v.items[i])
    ELSE ~NonFinite(v)

\* b is a with every non-finite float replaced by None and nothing else changed
RECURSIVE SanitizedFrom(_, _)
SanitizedFrom(a, b) ==
    IF a.k = "dict"
    THEN /\ b.k = "dict"
         /\ DOMAIN b.m = DOMAIN a.m
         /\ \A x \in DOMAIN a.m : SanitizedFrom(a.m[x], b.m[x])
    ELSE IF a.k = "list"
    THEN /\ b.k = "list"
         /\ DOMAIN b.items = DOMAIN a.items
         /\ \A i \in DOMAIN a.items : SanitizedFrom(a.items[i], b.items[i])
    ELSE IF NonFinite(a) THEN b = None
    ELSE b = a

\* C14: the snapshot being returned has no non-finite float at any depth,
\* and each cached payload appears in it under raw with every non-finite
\* float, also inside a sequence, replaced by null and every other value,
\* every key and the shape unchanged; the same holds of the whole snapshot
\* against the structure it was built as.
C14_SanitizedEverywhere ==
    cpc = "s_done" =>
        /\ AllFinite(cres.value)
        /\ SanitizedFrom(BuildSnapshot(cloc), cres.value)
        /\ \A t \in watched :
             IF t \in DOMAIN latest
             THEN SanitizedFrom(latest[t], Returned.raw.m[t])
             ELSE Returned.raw.m[t] = EmptyDict

\* a snapshot returns a home position whose payload had non-finite floats in
\* a field and inside a sequence
C14_Witness ==
    /\ cpc = "s_done"
    /\ "HOME_POSITION" \in DOMAIN latest
    /\ ~AllFinite(latest["HOME_POSITION"])
    /\ Returned.raw.m["HOME_POSITION"].m.approach_x = None
    /\ Returned.raw.m["HOME_POSITION"].m.q = ListV(<<Ratio(1, 1), None, None, Ratio(0, 1)>>)
    /\ Returned.raw.m["HOME_POSITION"].m.longitude = IntV(473977420)
    /\ Returned.home.m.alt_m = Ratio(-3, 2)

\* connected does not go back to false
StaysConnected == connected => connected'

\* a reader thread that has connected has ended only after the stop signal
ConnectedLoopEndsOnStop ==
    \A w \in Workers : (connected /\ pc[w] \in {"done", "crashed"}) => stop_event

\* C15 as claimed: once connected is true it is true in every later state,
\* whatever messages or gaps follow, and the connected loop ends only on the
\* stop signal.
C15_NeverBackToDisconnected ==
    /\ [][StaysConnected]_vars
    /\ [](ConnectedLoopEndsOnStop)

Tried(kind) == hist.tried[kind]

\* a reader thread is inside _request_streams, past its first send
PastStreamSend(w) == pc[w] \in {"rs_home", "rs_flag"}

\* C16, in every state: each of the two sends has been attempted at most
\* once; the home request is attempted whatever became of the stream request,
\* and the flag is set whatever became of both; with the flag set the loop is
\* connected, so it goes on to poll.
C16_AttemptedOnce ==
    /\ Tried("REQUEST_DATA_STREAM") <= 1
    /\ Tried("GET_HOME_POSITION") <= 1
    /\ Count("REQUEST_DATA_STREAM") <= Tried("REQUEST_DATA_STREAM")
    /\ Count("GET_HOME_POSITION") <= Tried("GET_HOME_POSITION")
    /\ \A w \in Workers :
         /\ pc[w] = "rs_stream" => Tried("REQUEST_DATA_STREAM") = 0
         /\ pc[w] = "rs_home"
              => (Tried("REQUEST_DATA_STREAM") = 1 /\ Tried("GET_HOME_POSITION") = 0)
         /\ pc[w] = "rs_flag"
              => (Tried("REQUEST_DATA_STREAM") = 1 /\ Tried("GET_HOME_POSITION") = 1)
         /\ pc[w] \in {"rs_stream", "rs_home", "rs_flag"} => ~stream_requested
    /\ (Tried("REQUEST_DATA_STREAM") = 1 /\ \A w \in Workers : ~PastStreamSend(w))
         => (stream_requested /\ Tried("GET_HOME_POSITION") = 1)
    /\ stream_requested => connected

\* C16, in every step: a send of _request_streams, failed or not, is followed
\* by the next statement of _request_streams, and line 110 sets the flag and
\* goes back to the head of the loop; no thread ends inside _request_streams.
C16_FailureSwallowed ==
    \A w \in Workers :
        pc'[w] # pc[w] =>
            /\ pc[w] = "rs_stream" => pc'[w] = "rs_home"
            /\ pc[w] = "rs_home" => pc'[w] = "rs_flag"
            /\ pc[w] = "rs_flag" => (pc'[w] = "loop" /\ stream_requested' /\ connected')

\* C16: the stream request and the home request are best-effort: a failed
\* send is swallowed, the other command is still attempted, the flag is still
\* set, the loop goes on to Connected polling, and neither command is
\* attempted a second time.
C16_BestEffort == [](C16_AttemptedOnce) /\ [][C16_FailureSwallowed]_vars

\* the stream request failed, the home request went out, the flag is set and
\* the loop has polled and stored a message since
C16_Witness ==
    /\ Tried("REQUEST_DATA_STREAM") = 1
    /\ Count("REQUEST_DATA_STREAM") = 0
    /\ Count("GET_HOME_POSITION") = 1
    /\ stream_requested
    /\ pc["w1"] = "recv"
    /\ DOMAIN latest # {}

\* C17: nothing is sent before the first heartbeat: the loop attempts its two
\* sends only once connected is true, the stream request before the home
\* request, both addressed to the target the heartbeat gave; the event-loop
\* thread is at manual_control_send, or has sent, only with a heartbeat
\* received and a nonzero target_system.
C17_NothingBeforeHeartbeat ==
    /\ (sent # <<>> \/ Tried("REQUEST_DATA_STREAM") > 0 \/ Tried("GET_HOME_POSITION") > 0)
         => (hist.hbSeen /\ connected)
    /\ \A w \in Workers :
         pc[w] \in {"rs_check", "rs_stream", "rs_home", "rs_flag"} => (hist.hbSeen /\ connected)
    /\ Tried("GET_HOME_POSITION") > 0 => Tried("REQUEST_DATA_STREAM") > 0
    /\ \A i, j \in DOMAIN sent :
         i < j => (sent[i].kind = "REQUEST_DATA_STREAM" /\ sent[j].kind = "GET_HOME_POSITION")
    /\ \A i \in DOMAIN sent :
         /\ sent[i].target_system \in SysIds
         /\ sent[i].target_system # 0
    /\ (ClientSending \/ cloc.out # <<>>) => (hist.hbSeen /\ target_system # 0)
    /\ \A i \in DOMAIN cloc.out : cloc.out[i].target_system # 0

\* both requests of the loop are out, in order, and a manual-control message
\* has been sent
C17_Witness ==
    /\ Len(sent) = 2
    /\ sent[1].kind = "REQUEST_DATA_STREAM"
    /\ sent[2].kind = "GET_HOME_POSITION"
    /\ cpc = "mc_done"
    /\ Len(cloc.out) = 1
    /\ hist.hbSeen

\* C18 as claimed: whatever the calls of start() and stop(), at most one
\* thread is running _reader_loop.
C18_AtMostOneWorker ==
    Cardinality({w \in Workers : Alive(w)}) <= 1

\* C19 as claimed: a reader thread reads connected (line 55), reads the
\* stream-requested flag (line 79) and sets it (line 110) only while it holds
\* the lock.
C19_BookkeepingUnderLock ==
    \A w \in Workers :
        pc[w] \in {"rs_check", "rs_flag", "if_conn"} => lock = w

\* C20: in every state, with connected false the cache is empty and
\* last_seen_at is unset, and with the cache non-empty connected is true and
\* last_seen_at is set; every cached entry was taken by the poll of the
\* Connected branch (line 67), so what arrived while Disconnected, the
\* heartbeat that made the connection included, is not in the cache; the loop
\* is in its Connected branch only with connected true.
C20_CacheOnlyWhenConnected ==
    /\ ~connected => (latest = EmptyMap /\ last_seen_at = None)
    /\ latest # EmptyMap => (connected /\ last_seen_at # None)
    /\ DOMAIN latest \subseteq DOMAIN hist.lastRecv
    /\ \A w \in Workers :
         /\ pc[w] \in {"wait_hb", "lock1", "set_conn"} => latest = EmptyMap
         /\ (pc[w] = "recv" \/ InFlight(w)) => connected

\* the loop has connected on a heartbeat and stored an attitude message
\* since, and no heartbeat is in the cache
C20_Witness ==
    /\ hist.hbSeen
    /\ connected
    /\ DOMAIN latest = {"ATTITUDE"}
    /\ last_seen_at # None
    /\ pc["w1"] = "loop"

====
